---- MODULE Spec2Model ----
(***************************************************************************)
(* Model of the Lighthouse node controller (src/Lighthouse.py).            *)
(*                                                                         *)
(* One node is modelled with all of its threads: the startup thread that   *)
(* runs initialize(), the HTTP handler threads that serve /reset, /stop    *)
(* and /update, the host call set_temp_status(), and the monitor threads.  *)
(* The other nodes are the environment: every HTTP request the node makes  *)
(* (status ping, /sync, /reset notification) gets a reply chosen from the  *)
(* replies a peer can give, including no reply at all.                     *)
(*                                                                         *)
(* The three lifecycle callbacks are assumed to be registered; whether an  *)
(* invocation raises is chosen by the environment.                         *)
(***************************************************************************)
EXTENDS Integers, Sequences, FiniteSets, TLC

\* ------------------------------------------------------------------ bounds
MaxHandlers == 1      \* HTTP handler threads serving requests at once
MaxMonitors == 2      \* monitor thread objects that can exist at once
MaxTime     == 2      \* the clock runs from 0 to MaxTime
MaxDuration == 1      \* set_temp_status durations are 1..MaxDuration
MaxPeers    == 3      \* longest configured slave list

\* --------------------------------------------------------------- constants
StaggerStep == 5

SelfAddr   == "a"
ParentAddr == "p"
Addrs      == {"p", "a", "b"}

Payloads == {"u1", "u2"}
NoUpdate == "none"                        \* last_update = None
Messages == {"maintenance"}               \* custom status messages
NoStatus == "unset"                       \* local parent_status not assigned

ParentReplies == {"running", "waiting", "down"}   \* "down": no usable reply
SyncReplies   == {"fail", "empty"} \cup Payloads
PingReplies   == {"UP", "IDLE", "DOWN"}
StatusReplies == {"waiting", "fail"}   \* "fail": the request raises

Startup  == 0
Handlers == 1..MaxHandlers
Monitors == (MaxHandlers + 1)..(MaxHandlers + MaxMonitors)
Threads  == 0..(MaxHandlers + MaxMonitors)
NoThread == -1

VARIABLES
  config,               \* self.config: role, self_addr, parent_addr, slaves
  parent_slaves,        \* the slave list the parent reports at /status
  status,               \* self.status
  custom_status,        \* self.custom_status
  timeout_start,        \* self.timeout_start
  timeout,              \* self.timeout
  last_update,          \* self.last_update
  stop_monitor_thread,  \* self.stop_monitor_thread (Event)
  monitor_thread,       \* self.monitor_thread, NoThread before the first one
  now,                  \* time.time()
  pc,                   \* position of every thread
  parent_status,        \* monitor()'s local parent_status, per monitor thread
  sleep_time,           \* monitor()'s local sleep_time, per monitor thread
  workload,             \* last of the start/stop callbacks that was invoked
  notified,             \* peers posted by the latest notify_slaves call
  queried,              \* peers asked by the latest sync_from_slaves call, with replies
  applied,              \* payloads given to the update callback by that call
  pushed,               \* payload and peers of the latest send_update call
  statuses,             \* the list returned by the latest get_all_statuses call
  m_pc,                 \* the parent node, when it is modelled: where it is
  m_status              \* the parent node, when it is modelled: its self.status

vars == <<config, parent_slaves, status, custom_status, timeout_start, timeout,
          last_update, stop_monitor_thread, monitor_thread, now, pc,
          parent_status, sleep_time, workload, notified, queried, applied,
          pushed, statuses, m_pc, m_status>>

\* what no step of the node's own threads and handlers changes
envVars == <<parent_slaves, pushed, statuses, m_pc, m_status>>

nodeVars == <<status, custom_status, timeout_start, timeout, last_update>>
histVars == <<workload, notified, queried, applied>>
monLocals == <<parent_status, sleep_time>>

\* ------------------------------------------------------------ list helpers
Range(s) == {s[i] : i \in 1..Len(s)}

RECURSIVE ListsUpTo(_)
ListsUpTo(n) ==
  IF n = 0 THEN {<<>>}
  ELSE LET shorter == ListsUpTo(n - 1)
       IN  shorter \cup {Append(l, x) : l \in {s \in shorter : Len(s) = n - 1},
                                         x \in Addrs}

PeerLists == ListsUpTo(MaxPeers)

\* list.index(x): position of the first occurrence, counted from 0
RECURSIVE IndexFrom(_, _, _)
IndexFrom(list, x, i) ==
  IF i > Len(list) THEN -1
  ELSE IF list[i] = x THEN i - 1
  ELSE IndexFrom(list, x, i + 1)

\* -------------------------------------------------------- pure functions
\* monitor(), lines 258-261: the stagger slept before the failover re-check
StaggerDelay_OneBased(slaves, self) ==
  IF IndexFrom(slaves, self, 1) >= 0
  THEN StaggerStep * (IndexFrom(slaves, self, 1) + 1)
  ELSE StaggerStep

StaggerDelay(slaves, self) ==
  IF IndexFrom(slaves, self, 1) >= 0
  THEN StaggerStep * IndexFrom(slaves, self, 1)
  ELSE StaggerStep

\* monitor(), line 256
NeedsFailover_NoWaiting(ps, st) == ps \notin {"running"} /\ st # "running"
NeedsFailover(ps, st) == ps \notin {"running", "waiting"} /\ st # "running"

\* stop_main_code(), line 422: the status it leaves
StopMainCode(st, custom) == IF ~custom THEN "waiting" ELSE st

\* initialize(), lines 88 and 92: which branch runs
InitBranch(role, tmo, alive) ==
  IF role = "master" /\ tmo = 0 THEN "master"
  ELSE IF ~alive THEN "spawn"
  ELSE "none"

\* get_slaves(), lines 320-327; reply is "fail" or the list the parent reports
GetSlaves(reply, parent) ==
  IF reply = "fail" THEN <<>>
  ELSE IF parent \in Range(reply) THEN reply
  ELSE <<parent>> \o reply

\* any_main_running(), lines 336-342; ping is the ping_status of each address
IpList_NoParent(cfg) == cfg.slaves

IpList(cfg) ==
  IF cfg.role = "master" \/ cfg.parent_addr \in Range(cfg.slaves)
  THEN cfg.slaves
  ELSE <<cfg.parent_addr>> \o cfg.slaves

AnyMainRunning(cfg, ping) ==
  \E i \in 1..Len(IpList(cfg)) :
     /\ IpList(cfg)[i] # cfg.self_addr
     /\ ping[IpList(cfg)[i]] = "UP"

\* notify_slaves(), lines 360-367: the peers that get the POST
NotifyTargets(cfg) == Range(cfg.slaves) \ {cfg.self_addr}

\* sync_from_slaves(), lines 101-113.  resp[i] is the reply of the i-th list
\* entry to GET /sync; raises tells whether the update callback raises.
RECURSIVE SyncScan(_, _, _, _, _, _, _)
SyncScan(slaves, self, resp, raises, i, q, a) ==
  IF i > Len(slaves) THEN [queried |-> q, applied |-> a]
  ELSE IF slaves[i] = self
       THEN SyncScan(slaves, self, resp, raises, i + 1, q, a)
  ELSE IF resp[i] \in {"fail", "empty"}
       THEN SyncScan(slaves, self, resp, raises, i + 1, Append(q, [ip |-> slaves[i], reply |-> resp[i]]), a)
  ELSE IF raises
       THEN SyncScan(slaves, self, resp, raises, i + 1,
                     Append(q, [ip |-> slaves[i], reply |-> resp[i]]), Append(a, resp[i]))
  ELSE [queried |-> Append(q, [ip |-> slaves[i], reply |-> resp[i]]), applied |-> Append(a, resp[i])]

SyncFromSlaves(slaves, self, resp, raises) ==
  SyncScan(slaves, self, resp, raises, 1, <<>>, <<>>)

\* ------------------------------------------------------------ state reads
\* monitor(), line 243
Expired == timeout # 0 /\ timeout_start + timeout < now

\* initialize(), line 92: hasattr(self, 'monitor_thread') and is_alive()
MonitorAlive == monitor_thread # NoThread /\ pc[monitor_thread] # "dead"

\* a monitor thread that is inside its while loop and will tick again
LoopPcs == {"loop", "stagger", "pnotify", "caught", "sleep"}
ActiveMonitors == {m \in Monitors : pc[m] \in LoopPcs}

\* where a thread goes when initialize() returns: the monitor breaks out of
\* its loop (line 249), the startup thread ends, a handler answers 204
Return(t) == IF t \in Monitors THEN "exit" ELSE IF t = Startup THEN "done" ELSE "idle"

\* where a thread goes when a start or stop callback raises: nothing catches
\* it before the monitor's handler (line 266), the end of the startup thread,
\* or the transport, which answers the request with an error
Raise(t) == IF t \in Monitors THEN "caught" ELSE IF t = Startup THEN "done" ELSE "error"

\* the fields of the node that a reset can touch
NodeState ==
  [role |-> config.role, status |-> status, custom_status |-> custom_status,
   timeout_start |-> timeout_start, timeout |-> timeout,
   last_update |-> last_update, stop |-> stop_monitor_thread,
   alive |-> MonitorAlive, loops |-> Cardinality(ActiveMonitors)]

\* reset(), lines 177-178, run from start to end with nothing in between and
\* no callback raising: stop_main_code("reset"), then initialize()
ResetOnce(s) ==
  LET st == StopMainCode(s.status, s.custom_status)
      br == InitBranch(s.role, s.timeout, s.alive)
  IN  IF br = "master" THEN [s EXCEPT !.status = "running"]
      ELSE IF br = "spawn"
           THEN [s EXCEPT !.status = st, !.stop = FALSE, !.alive = TRUE,
                          !.loops = @ + 1]
      ELSE [s EXCEPT !.status = st]

\* ------------------------------------------------------------------- Init
InitNode(cfg, pslaves) ==
  /\ config = cfg
  /\ parent_slaves = pslaves
  /\ status = "waiting"
  /\ custom_status = FALSE
  /\ timeout_start = 0
  /\ timeout = 0
  /\ last_update = NoUpdate
  /\ stop_monitor_thread = FALSE
  /\ monitor_thread = NoThread
  /\ now = 0
  /\ pc = [t \in Threads |->
             IF t = Startup THEN "init" ELSE IF t \in Handlers THEN "idle" ELSE "dead"]
  /\ parent_status = [m \in Monitors |-> NoStatus]
  /\ sleep_time = [m \in Monitors |-> 0]
  /\ workload = "never"
  /\ notified = {}
  /\ queried = <<>>
  /\ applied = <<>>
  /\ pushed = [data |-> NoUpdate, to |-> <<>>, lost |-> {}]
  /\ statuses = <<>>
  /\ m_pc = "absent"
  /\ m_status = "waiting"

Config(role, slaves) ==
  [role |-> role, self_addr |-> SelfAddr, parent_addr |-> ParentAddr, slaves |-> slaves]

\* a node of either role with the slave list ["b", "a"]
Init ==
  \E role \in {"master", "slave"} :
     InitNode(Config(role, <<"b", "a">>), <<"b", "a">>)

InitWide ==
  \E role \in {"master", "slave"}, slaves \in PeerLists :
     \E pslaves \in (IF role = "slave" /\ slaves = <<>> THEN PeerLists ELSE {<<"b", "a">>}) :
        InitNode(Config(role, slaves), pslaves)

\* ------------------------------------------------------------- initialize
\* initialize(), lines 88-92, with sync_from_slaves() of the master branch
InitCheck(t) ==
  /\ pc[t] = "init"
  /\ LET br == InitBranch(config.role, timeout, MonitorAlive) IN
       \/ /\ br = "master"
          /\ \E resp \in [1..Len(config.slaves) -> SyncReplies], raises \in BOOLEAN :
               LET r == SyncFromSlaves(config.slaves, config.self_addr, resp, raises)
               IN  queried' = r.queried /\ applied' = r.applied
          /\ pc' = [pc EXCEPT ![t] = "notify"]
       \/ /\ br = "spawn"
          /\ pc' = [pc EXCEPT ![t] = "spawn"]
          /\ UNCHANGED <<queried, applied>>
       \/ /\ br = "none"
          /\ pc' = [pc EXCEPT ![t] = Return(t)]
          /\ UNCHANGED <<queried, applied>>
  /\ UNCHANGED <<config, envVars, nodeVars, stop_monitor_thread,
                 monitor_thread, now, monLocals, workload, notified>>

\* initialize(), lines 93-95
Spawn(t) ==
  /\ pc[t] = "spawn"
  /\ \E m \in Monitors :
       /\ pc[m] = "dead"
       /\ \A k \in Monitors : pc[k] = "dead" => m <= k
       /\ monitor_thread' = m
       /\ pc' = [pc EXCEPT ![m] = "loop", ![t] = Return(t)]
  /\ stop_monitor_thread' = FALSE
  /\ UNCHANGED <<config, envVars, nodeVars, now, monLocals, histVars>>

\* initialize(), line 90: notify_slaves("reset")
InitNotify(t) ==
  /\ pc[t] = "notify"
  /\ notified' = NotifyTargets(config)
  /\ pc' = [pc EXCEPT ![t] = "start"]
  /\ UNCHANGED <<config, envVars, nodeVars, stop_monitor_thread,
                 monitor_thread, now, monLocals, workload, queried, applied>>

\* initialize(), line 91: start_main_code(), lines 374-382
InitStart(t) ==
  /\ pc[t] = "start"
  /\ status' = "running"
  /\ workload' = "started"
  /\ \E raises \in BOOLEAN :
       pc' = [pc EXCEPT ![t] = IF raises THEN Raise(t) ELSE Return(t)]
  /\ UNCHANGED <<config, envVars, custom_status, timeout_start, timeout,
                 last_update, stop_monitor_thread, monitor_thread, now,
                 monLocals, notified, queried, applied>>

\* ------------------------------------------------------- control surface
\* reset(), line 177: stop_main_code("reset"); a raising stop callback ends
\* the request there, otherwise initialize() follows (line 178)
Reset(h) ==
  /\ pc[h] = "idle"
  /\ status' = StopMainCode(status, custom_status)
  /\ workload' = "stopped"
  /\ \E raises \in BOOLEAN :
       pc' = [pc EXCEPT ![h] = IF raises THEN Raise(h) ELSE "init"]
  /\ UNCHANGED <<config, envVars, custom_status, timeout_start, timeout,
                 last_update, stop_monitor_thread, monitor_thread, now,
                 monLocals, notified, queried, applied>>

\* stop(), lines 188-190; the request ends with the callback, raising or not
Stop_ClearsUpdate(h) ==
  /\ pc[h] = "idle"
  /\ status' = StopMainCode(status, custom_status)
  /\ workload' = "stopped"
  /\ last_update' = NoUpdate
  /\ UNCHANGED <<config, envVars, custom_status, timeout_start, timeout,
                 stop_monitor_thread, monitor_thread, now, pc,
                 monLocals, notified, queried, applied>>

Stop(h) ==
  /\ pc[h] = "idle"
  /\ status' = StopMainCode(status, custom_status)
  /\ workload' = "stopped"
  /\ UNCHANGED <<config, envVars, custom_status, timeout_start, timeout,
                 last_update, stop_monitor_thread, monitor_thread, now, pc,
                 monLocals, notified, queried, applied>>

\* update(), lines 210-217; the request ends with the callback, raising or not
Update(h, data) ==
  /\ pc[h] = "idle"
  /\ last_update' = data
  /\ UNCHANGED <<config, envVars, status, custom_status, timeout_start,
                 timeout, stop_monitor_thread, monitor_thread, now, pc,
                 monLocals, histVars>>

\* the transport answers a request whose handler raised
HandlerError(h) ==
  /\ pc[h] = "error"
  /\ pc' = [pc EXCEPT ![h] = "idle"]
  /\ UNCHANGED <<config, envVars, nodeVars, stop_monitor_thread,
                 monitor_thread, now, monLocals, histVars>>

\* get_all_statuses(), lines 394-397: add_status with its seen_ips test
AddStatus_NoSeen(res, ip, st) == Append(res, [ip |-> ip, status |-> st])

AddStatus(res, ip, st) ==
  IF \E i \in 1..Len(res) : res[i].ip = ip
  THEN res
  ELSE Append(res, [ip |-> ip, status |-> st])

\* get_all_statuses(), lines 399-401: the addresses that are visited
StatusIpList(cfg) ==
  IF cfg.role # "master" /\ cfg.parent_addr \notin Range(cfg.slaves)
  THEN <<cfg.parent_addr>> \o cfg.slaves
  ELSE cfg.slaves

\* get_all_statuses(), lines 402-411; reach[ip] is the status ip answers with
RECURSIVE StatusScan(_, _, _, _, _)
StatusScan(list, self, reach, i, res) ==
  IF i > Len(list) THEN res
  ELSE IF list[i] = self THEN StatusScan(list, self, reach, i + 1, res)
  ELSE IF reach[list[i]] = "fail"
       THEN StatusScan(list, self, reach, i + 1, AddStatus(res, list[i], "crashed"))
  ELSE StatusScan(list, self, reach, i + 1, AddStatus(res, list[i], reach[list[i]]))

\* get_all_statuses(), lines 392-412
GetAllStatuses(cfg, st, reach) ==
  StatusScan(StatusIpList(cfg), cfg.self_addr, reach, 1,
             AddStatus(<<>>, cfg.self_addr, st))

\* get_all_statuses() called by the host
GetAllStatusesCall(reach) ==
  /\ statuses' = GetAllStatuses(config, status, reach)
  /\ UNCHANGED <<config, parent_slaves, pushed, m_pc, m_status, nodeVars,
                 stop_monitor_thread, monitor_thread, now, pc, monLocals, histVars>>

\* sync(), lines 199-200: the last_update the node hands to a peer
Sync == last_update

\* send_update(), lines 227-234: the peers that are posted the payload, in list
\* order; a failing post is logged and the loop goes on
RECURSIVE SendScan(_, _, _, _)
SendScan(slaves, self, i, sent) ==
  IF i > Len(slaves) THEN sent
  ELSE IF slaves[i] = self THEN SendScan(slaves, self, i + 1, sent)
  ELSE SendScan(slaves, self, i + 1, Append(sent, slaves[i]))

\* send_update(), lines 219-234, called by the host; lost are the peers whose
\* post fails
SendUpdate(data) ==
  /\ \E lost \in SUBSET NotifyTargets(config) :
       pushed' = [data |-> data, to |-> SendScan(config.slaves, config.self_addr, 1, <<>>),
                  lost |-> lost]
  /\ UNCHANGED <<config, parent_slaves, statuses, m_pc, m_status, nodeVars,
                 stop_monitor_thread, monitor_thread, now, pc, monLocals, histVars>>

\* set_temp_status(), lines 149-153, called by the host
SetTempStatus(msg, duration) ==
  /\ custom_status' = TRUE
  /\ timeout_start' = now
  /\ timeout' = duration
  /\ status' = StopMainCode(msg, TRUE)
  /\ workload' = "stopped"
  /\ UNCHANGED <<config, envVars, last_update, stop_monitor_thread,
                 monitor_thread, now, pc, monLocals, notified, queried, applied>>

\* time.time() advances
TimePasses ==
  /\ now < MaxTime
  /\ now' = now + 1
  /\ UNCHANGED <<config, envVars, nodeVars, stop_monitor_thread,
                 monitor_thread, pc, monLocals, histVars>>

\* ----------------------------------------------------------------- monitor
\* monitor(), line 241: the loop condition fails
MonitorStopped(m) ==
  /\ pc[m] = "loop"
  /\ stop_monitor_thread
  /\ pc' = [pc EXCEPT ![m] = "exit"]
  /\ UNCHANGED <<config, envVars, nodeVars, stop_monitor_thread,
                 monitor_thread, now, monLocals, histVars>>

\* monitor(), lines 243-248: the override has expired; initialize() is next
MonitorExpire(m) ==
  /\ pc[m] = "loop"
  /\ ~stop_monitor_thread
  /\ Expired
  /\ stop_monitor_thread' = TRUE
  /\ custom_status' = FALSE
  /\ timeout' = 0
  /\ pc' = [pc EXCEPT ![m] = "init"]
  /\ UNCHANGED <<config, envVars, status, timeout_start, last_update,
                 monitor_thread, now, monLocals, histVars>>

\* monitor(), lines 250-262: a tick that is not an expiry.  A slave queries
\* the parent, fills an empty slave list from it and decides on failover.
MonitorPollWith(m, ps, reply) ==
  /\ pc[m] = "loop"
  /\ ~stop_monitor_thread
  /\ ~Expired
  /\ IF config.role = "slave"
     THEN   LET got == GetSlaves(IF reply = "fail" THEN "fail" ELSE parent_slaves,
                                 config.parent_addr)
                new == IF config.slaves = <<>> /\ got # <<>> THEN got ELSE config.slaves
            IN  /\ parent_status' = [parent_status EXCEPT ![m] = ps]
                /\ config' = [config EXCEPT !.slaves = new]
                /\ IF NeedsFailover(ps, status)
                   THEN /\ sleep_time' = [sleep_time EXCEPT
                                            ![m] = StaggerDelay(new, config.self_addr)]
                        /\ pc' = [pc EXCEPT ![m] = "stagger"]
                   ELSE /\ sleep_time' = sleep_time
                        /\ pc' = [pc EXCEPT ![m] = "sleep"]
     ELSE /\ pc' = [pc EXCEPT ![m] = "sleep"]
          /\ UNCHANGED <<config, monLocals>>
  /\ UNCHANGED <<envVars, nodeVars, stop_monitor_thread, monitor_thread,
                 now, histVars>>

\* the parent's replies are any a node can give
MonitorPoll(m) ==
  /\ pc[m] = "loop"
  /\ \E ps \in ParentReplies, reply \in {"fail", "ok"} : MonitorPollWith(m, ps, reply)

\* monitor(), line 263: after the stagger sleep somebody is running
StandDown(m) ==
  /\ pc[m] = "stagger"
  /\ pc' = [pc EXCEPT ![m] = "sleep"]
  /\ UNCHANGED <<config, envVars, nodeVars, stop_monitor_thread,
                 monitor_thread, now, monLocals, histVars>>

\* the re-check with the ping replies given
StandDownWith(m, ping) == AnyMainRunning(config, ping) /\ StandDown(m)

\* the peers' ping replies are any a node can give
MonitorStandDown(m) ==
  /\ pc[m] = "stagger"
  /\ \E ping \in [Addrs -> PingReplies] : AnyMainRunning(config, ping)
  /\ StandDown(m)

\* monitor(), lines 264-265 and promote_to_active(), line 349:
\* start_main_code(); a raising start callback ends the tick in the handler
\* of line 266
PromoteToActive(m) ==
  /\ pc[m] = "stagger"
  /\ status' = "running"
  /\ workload' = "started"
  /\ \E raises \in BOOLEAN :
       pc' = [pc EXCEPT ![m] = IF raises THEN Raise(m) ELSE "pnotify"]
  /\ UNCHANGED <<config, envVars, custom_status, timeout_start, timeout,
                 last_update, stop_monitor_thread, monitor_thread, now,
                 monLocals, notified, queried, applied>>

\* monitor(), line 263: nobody is running in the ping replies given
PromoteWith(m, ping) == ~AnyMainRunning(config, ping) /\ PromoteToActive(m)

\* the peers' ping replies are any a node can give
Promote(m) ==
  /\ pc[m] = "stagger"
  /\ \E ping \in [Addrs -> PingReplies] : ~AnyMainRunning(config, ping)
  /\ PromoteToActive(m)

\* promote_to_active(), line 350: notify_slaves('reset')
PromoteNotify(m) ==
  /\ pc[m] = "pnotify"
  /\ notified' = NotifyTargets(config)
  /\ pc' = [pc EXCEPT ![m] = "sleep"]
  /\ UNCHANGED <<config, envVars, nodeVars, stop_monitor_thread,
                 monitor_thread, now, monLocals, workload, queried, applied>>

\* monitor(), lines 266-267: the tick's exception is logged
MonitorCaught(m) ==
  /\ pc[m] = "caught"
  /\ pc' = [pc EXCEPT ![m] = "sleep"]
  /\ UNCHANGED <<config, envVars, nodeVars, stop_monitor_thread,
                 monitor_thread, now, monLocals, histVars>>

\* monitor(), line 269: the interval sleep; the tick's locals are dead
MonitorSleep(m) ==
  /\ pc[m] = "sleep"
  /\ pc' = [pc EXCEPT ![m] = "loop"]
  /\ parent_status' = [parent_status EXCEPT ![m] = NoStatus]
  /\ sleep_time' = [sleep_time EXCEPT ![m] = 0]
  /\ UNCHANGED <<config, envVars, nodeVars, stop_monitor_thread,
                 monitor_thread, now, histVars>>

\* monitor() returns and the thread is no longer alive
MonitorExit(m) ==
  /\ pc[m] = "exit"
  /\ pc' = [pc EXCEPT ![m] = "dead"]
  /\ UNCHANGED <<config, envVars, nodeVars, stop_monitor_thread,
                 monitor_thread, now, monLocals, histVars>>

\* ------------------------------------------------------ the parent as a node
\* The parent runs the same class with role master.  m_pc is where its
\* initialize() stands ("absent": the process is not running), m_status its
\* self.status.  The other peer stays a reachable standby.

\* what GET /status on the parent gives ping_raw_status(), lines 302-308
PairParentStatus == IF m_pc = "absent" THEN "down" ELSE m_status

\* what ping_status(), lines 282-290, returns for each address
PairPing ==
  [ip \in Addrs |->
     IF ip = ParentAddr
     THEN (IF m_pc = "absent" THEN "DOWN"
           ELSE IF m_status = "running" THEN "UP" ELSE "IDLE")
     ELSE "IDLE"]

\* the parent process starts: __init__ (line 31) leaves status 'waiting' and
\* run() calls initialize(); this node has finished its own startup
MasterBoot ==
  /\ m_pc = "absent"
  /\ pc[Startup] = "done"
  /\ m_pc' = "init"
  /\ m_status' = "waiting"
  /\ UNCHANGED <<config, parent_slaves, pushed, statuses, nodeVars,
                 stop_monitor_thread, monitor_thread, now, pc, monLocals, histVars>>

\* the parent's initialize(), line 89: sync_from_slaves(); GET /sync is
\* answered by sync(), lines 199-200, which changes nothing on this node
MasterPull ==
  /\ m_pc = "init"
  /\ m_pc' = "notify"
  /\ UNCHANGED <<config, parent_slaves, pushed, statuses, m_status, nodeVars,
                 stop_monitor_thread, monitor_thread, now, pc, monLocals, histVars>>

\* the parent's initialize(), line 90: notify_slaves('reset'); the POST
\* reaches this node and handler h runs reset(), line 177, the stop callback
\* returning normally
MasterNotify(h) ==
  /\ m_pc = "notify"
  /\ pc[h] = "idle"
  /\ status' = StopMainCode(status, custom_status)
  /\ workload' = "stopped"
  /\ pc' = [pc EXCEPT ![h] = "init"]
  /\ m_pc' = "wait"
  /\ UNCHANGED <<config, parent_slaves, pushed, statuses, m_status,
                 custom_status, timeout_start, timeout, last_update,
                 stop_monitor_thread, monitor_thread, now, monLocals,
                 notified, queried, applied>>

\* notify_slaves(), line 364: requests.post returns when reset() has answered
MasterNotified ==
  /\ m_pc = "wait"
  /\ \A h \in Handlers : pc[h] = "idle"
  /\ m_pc' = "start"
  /\ UNCHANGED <<config, parent_slaves, pushed, statuses, m_status, nodeVars,
                 stop_monitor_thread, monitor_thread, now, pc, monLocals, histVars>>

\* the parent's initialize(), line 91: start_main_code(), line 374
MasterStart ==
  /\ m_pc = "start"
  /\ m_pc' = "up"
  /\ m_status' = "running"
  /\ UNCHANGED <<config, parent_slaves, pushed, statuses, nodeVars,
                 stop_monitor_thread, monitor_thread, now, pc, monLocals, histVars>>

\* a monitor tick of this node that asks the parent as it is
PairPoll(m) ==
  MonitorPollWith(m, PairParentStatus, IF m_pc = "absent" THEN "fail" ELSE "ok")

\* the re-check asks the nodes as they are; the start callback returns normally
PairPromote(m) == PromoteWith(m, PairPing) /\ pc'[m] = "pnotify"

PairStandDown(m) == StandDownWith(m, PairPing)

\* ---------------------------------------------------------- specifications
\* steps of the threads the node starts by itself at boot
BootStep ==
  \/ \E t \in Threads : InitCheck(t)
  \/ \E t \in Threads : Spawn(t)
  \/ \E t \in Threads : InitNotify(t)
  \/ \E t \in Threads : InitStart(t)
  \/ \E m \in Monitors : MonitorPoll(m)
  \/ \E m \in Monitors : MonitorStandDown(m)
  \/ \E m \in Monitors : Promote(m)
  \/ \E m \in Monitors : PromoteNotify(m)
  \/ \E m \in Monitors : MonitorCaught(m)
  \/ \E m \in Monitors : MonitorSleep(m)

\* the override and its expiry
OverrideStep ==
  \/ \E msg \in Messages, d \in 1..MaxDuration : SetTempStatus(msg, d)
  \/ TimePasses
  \/ \E m \in Monitors : MonitorExpire(m)
  \/ \E m \in Monitors : MonitorStopped(m)
  \/ \E m \in Monitors : MonitorExit(m)

\* requests from the transport
ControlStep ==
  \/ \E h \in Handlers : Reset(h)
  \/ \E h \in Handlers : Stop(h)
  \/ \E h \in Handlers, data \in Payloads : Update(h, data)
  \/ \E h \in Handlers : HandlerError(h)

Next == BootStep \/ OverrideStep \/ ControlStep

\* payloads coming in and going out
UpdateStep ==
  \/ \E data \in Payloads : SendUpdate(data)
  \/ \E h \in Handlers, data \in Payloads : Update(h, data)

NextUpdate == BootStep \/ UpdateStep

StatusStep == \E reach \in [Addrs -> StatusReplies] : GetAllStatusesCall(reach)

NextStatus == BootStep \/ StatusStep

\* the node with its host asking for the aggregate status, every slave list
SpecStatus == InitWide /\ [][NextStatus]_vars

\* the node with its host broadcasting and its peers pushing updates
SpecUpdate == Init /\ [][NextUpdate]_vars

Spec == Init /\ [][Next]_vars

\* the node and its monitor with every slave list, no request, no override
SpecWide == InitWide /\ [][BootStep]_vars

\* progress of the threads that are running and of the clock
ThreadStep ==
  \/ \E t \in Threads : InitCheck(t) \/ Spawn(t) \/ InitNotify(t) \/ InitStart(t)
  \/ \E m \in Monitors : MonitorPoll(m) \/ MonitorStandDown(m) \/ Promote(m)
                         \/ PromoteNotify(m) \/ MonitorCaught(m)
                         \/ MonitorSleep(m) \/ MonitorExpire(m)
                         \/ MonitorStopped(m) \/ MonitorExit(m)

NextOverride == BootStep \/ OverrideStep

\* the node left alone by the transport: only the host's set_temp_status
SpecOverride ==
  Init /\ [][NextOverride]_vars /\ WF_vars(ThreadStep) /\ WF_vars(TimePasses)

\* the steps of one thread of this node, its peers being as they are
PairThread(t) ==
  \/ InitCheck(t)
  \/ Spawn(t)
  \/ t \in Monitors /\ PairPoll(t)
  \/ t \in Monitors /\ PairStandDown(t)
  \/ t \in Monitors /\ PairPromote(t)
  \/ t \in Monitors /\ PromoteNotify(t)
  \/ t \in Monitors /\ MonitorSleep(t)

\* the steps of the parent's initialize() once it has started
MasterStep ==
  \/ MasterPull
  \/ \E h \in Handlers : MasterNotify(h)
  \/ MasterNotified
  \/ MasterStart

NextPair ==
  \/ \E t \in Threads : PairThread(t)
  \/ MasterBoot
  \/ MasterStep

\* slave lists that do not name the parent: the slave's own notify_slaves
\* then never posts to the parent
PairLists == {l \in PeerLists : l # <<>> /\ ParentAddr \notin Range(l)}

InitPair == \E slaves \in PairLists : InitNode(Config("slave", slaves), <<"b", "a">>)

\* a slave and its parent: the parent is away, comes back once and then
\* nobody fails; every thread that can run does run
SpecPair ==
  /\ InitPair
  /\ [][NextPair]_vars
  /\ \A t \in Threads : WF_vars(PairThread(t))
  /\ WF_vars(MasterStep)

\* ------------------------------------------------------------------ claims
Healthy == {"running", "waiting"}

\* C1: a monitor tick of a slave whose parent query returned 'running' or
\* 'waiting' ends in the interval sleep with the status unchanged, and
\* promote_to_active is only ever called in a tick whose parent query
\* returned something else.
C1_NoFailoverWhileParentHealthy ==
  [][/\ \A m \in Monitors :
          (MonitorPoll(m) /\ config.role = "slave" /\ parent_status'[m] \in Healthy)
             => (status' = status /\ pc'[m] = "sleep")
     /\ \A m \in Monitors : Promote(m) => parent_status[m] \notin Healthy]_vars

\* a slave that was stopped by a request has just polled a healthy parent
C1_Witness ==
  \E m \in Monitors :
     /\ config.role = "slave"
     /\ pc[m] = "sleep"
     /\ parent_status[m] \in Healthy
     /\ workload = "stopped"
     /\ status = "waiting"

\* C2: promote_to_active is called only by a slave that is not running yet
\* (one call per failover episode), and the call sets the status to 'running'
\* before any 'reset' notification leaves the node.
C2_Orig ==
  [][\A m \in Monitors :
        Promote(m) => (status # "running" /\ status' = "running" /\ notified' = notified)]_vars

\* C4: a node whose status is 'running' has had its start callback invoked
\* and no stop callback since.
C4_Orig == status = "running" => workload = "started"

\* C5: at most one monitor loop is executing on the node.
C5_Orig == Cardinality(ActiveMonitors) <= 1

\* C6: the start callback is never invoked twice without a stop callback in
\* between, and a reset invokes the stop callback before it runs initialize.
C6_Orig ==
  [][/\ (\E t \in Threads : InitStart(t)) => workload # "started"
     /\ (\E m \in Monitors : Promote(m)) => workload # "started"
     /\ \A h \in Handlers : (Reset(h) /\ pc'[h] = "init") => workload' = "stopped"]_vars

\* C10: a raising callback does not abort the operation that triggered it: a
\* reset goes on to initialize after its stop callback, a promotion goes on to
\* notify the peers after its start callback, and the monitor keeps looping.
C10_Orig ==
  [][/\ \A h \in Handlers : Reset(h) => pc'[h] = "init"
     /\ \A m \in Monitors : Promote(m) => pc'[m] = "pnotify"
     /\ \A m \in Monitors : MonitorCaught(m) => pc'[m] \in LoopPcs]_vars

\* C3: once the duration of a temporary override has elapsed, the expiry is
\* processed (the override is cleared) without any request from the transport.
C3_Orig == Expired ~> ~Expired

\* C7: two resets in a row leave the node as one reset does: 'running' for a
\* master without an override, exactly one monitor loop for a slave.
C7_Orig ==
  LET once  == ResetOnce(NodeState)
      twice == ResetOnce(once)
  IN  /\ twice = once
      /\ (config.role = "master" /\ timeout = 0) => once.status = "running"
      /\ config.role = "slave" => once.loops = 1

\* C8: the stagger slept before the re-check is 5 times the position of the
\* first occurrence of self_addr in the slave list (counted from 0), and 5
\* when self_addr is not in the list.
C8_StaggerIsIndexTimesStep ==
  \A m \in Monitors :
     pc[m] = "stagger" =>
        LET l == config.slaves IN
          /\ \A i \in 1..Len(l) :
                (l[i] = config.self_addr /\ \A j \in 1..(i - 1) : l[j] # config.self_addr)
                   => sleep_time[m] = 5 * (i - 1)
          /\ config.self_addr \notin Range(l) => sleep_time[m] = 5

\* a slave with self_addr third in a list of three sleeps 10
C8_Witness ==
  \E m \in Monitors :
     /\ pc[m] = "stagger"
     /\ Len(config.slaves) = 3
     /\ config.slaves[3] = config.self_addr
     /\ config.self_addr \notin {config.slaves[1], config.slaves[2]}
     /\ sleep_time[m] = 10

\* the peers of the slave list other than self, in list order
Others == SelectSeq(config.slaves, LAMBDA ip : ip # config.self_addr)

\* C9: sync_from_slaves asks the peers other than self in list order, gives
\* the update callback the payload of the first peer that answers with one,
\* and asks nobody and applies nothing after that; if nobody answers with a
\* payload it asks everybody and applies nothing.
C9_Orig ==
  [][\A t \in Threads :
        (InitCheck(t) /\ pc'[t] = "notify") =>
           LET q    == queried'
               hits == {i \in 1..Len(q) : q[i].reply \in Payloads}
           IN  /\ Len(q) <= Len(Others)
               /\ \A i \in 1..Len(q) : q[i].ip = Others[i]
               /\ IF hits = {}
                  THEN applied' = <<>> /\ Len(q) = Len(Others)
                  ELSE \E f \in hits :
                         /\ \A i \in hits : f <= i
                         /\ applied' = <<q[f].reply>>
                         /\ Len(q) = f]_vars

\* C11: when send_update(payload) has completed, the node's own last_update
\* is the payload, so that sync returns it, and the payload was posted to
\* every peer of the slave list other than self.
C11_Orig ==
  [][\A data \in Payloads :
        SendUpdate(data) =>
           /\ last_update' = data
           /\ Sync' = data
           /\ Range(pushed'.to) = NotifyTargets(config)]_vars

\* C12: last_update changes only in a step of update, which leaves it equal
\* to the payload received, so that sync returns that payload; reset, stop,
\* set_temp_status, the override expiry, promotion and the monitor ticks
\* leave it as it is.
C12_LastUpdateFrame ==
  [][/\ last_update' # last_update =>
          \E h \in Handlers, data \in Payloads : Update(h, data)
     /\ \A h \in Handlers, data \in Payloads : Update(h, data) => Sync' = data]_vars

\* a payload has been received and a reset is being served after it
C12_Witness ==
  /\ last_update \in Payloads
  /\ workload = "stopped"
  /\ \E h \in Handlers : pc[h] \in {"init", "spawn", "notify", "start"}

\* the peers get_all_statuses is to report on: the slave list and, on a
\* slave, the parent, without this node
StatusPeers ==
  (Range(config.slaves) \cup (IF config.role = "slave" THEN {config.parent_addr} ELSE {}))
     \ {config.self_addr}

\* C13: the list get_all_statuses returns starts with this node, holds no
\* address twice, and holds every unreachable peer with status 'crashed'.
C13_StatusesDeduplicated ==
  [][statuses' # statuses =>
      \A reach \in [Addrs -> StatusReplies] :
        GetAllStatusesCall(reach) =>
           LET r == statuses' IN
             /\ Len(r) >= 1
             /\ r[1] = [ip |-> config.self_addr, status |-> status]
             /\ \A i, j \in 1..Len(r) : i # j => r[i].ip # r[j].ip
             /\ \A ip \in StatusPeers :
                   reach[ip] = "fail" =>
                      \E i \in 2..Len(r) : r[i] = [ip |-> ip, status |-> "crashed"]]_vars

\* a slave whose list names the parent and one peer twice got a list with a
\* crashed peer
C13_Witness ==
  /\ config.role = "slave"
  /\ config.slaves = <<"b", "p", "b">>
  /\ Len(statuses) = 3
  /\ \E i \in 2..3 : statuses[i].status = "crashed"

\* the nodes a slave has to ask at the re-check: the parent and the peers,
\* without the slave itself
RecheckPeers == ({config.parent_addr} \cup Range(config.slaves)) \ {config.self_addr}

\* C14: whatever the nodes answer at the re-check, a slave promotes only if
\* none of the parent and the other peers reports 'running' (ping 'UP'); if
\* one does, the tick leaves status and workload alone and the loop goes on
\* to its interval sleep.
C14_PromoteOnlyIfNobodyRuns ==
  [][\A m \in Monitors :
        (pc[m] = "stagger" /\ config.role = "slave") =>
           \A ping \in [Addrs -> PingReplies] :
              LET up == \E ip \in RecheckPeers : ping[ip] = "UP" IN
                /\ PromoteWith(m, ping) => ~up
                /\ ((PromoteWith(m, ping) \/ StandDownWith(m, ping)) /\ up) =>
                      /\ status' = status
                      /\ workload' = workload
                      /\ pc'[m] = "sleep"]_vars

\* a slave whose list does not name the parent has promoted
C14_Witness ==
  /\ config.role = "slave"
  /\ config.parent_addr \notin Range(config.slaves)
  /\ Len(config.slaves) >= 2
  /\ \E m \in Monitors : pc[m] = "pnotify"

\* a thread is inside initialize()
InInitialize == \E t \in Threads : pc[t] \in {"init", "spawn", "notify", "start"}

\* C15: every step of stop or reset invokes the stop callback, so the claim
\* is that such a step is only taken by a node whose status is 'running'.
C15_Orig ==
  [][\A h \in Handlers :
        ((Reset(h) \/ Stop(h)) /\ workload' = "stopped") => status = "running"]_vars

\* C16: on a slave, once the monitor has processed an expiry and runs
\* initialize, exactly one monitor loop becomes active again.
C16_Orig ==
  (config.role = "slave" /\ \E m \in Monitors : pc[m] = "init")
     ~> (Cardinality(ActiveMonitors) = 1)

\* C17: outside initialize, a status that is neither 'waiting' nor 'running'
\* implies that the override is in force.
C17_Orig ==
  (~InInitialize /\ status \notin Healthy) => (custom_status /\ timeout # 0)

\* C18: when the pull of a master's initialization gets a payload, the node
\* holds it as last_update (sync returns it) before the peers are notified.
C18_Orig ==
  [][\A t \in Threads :
        (InitCheck(t) /\ pc'[t] = "notify" /\ applied' # <<>>) =>
           Sync' = applied'[1]]_vars

\* C19: while an override is in force and has not elapsed, the status is not
\* 'running' and the workload is not started.
C19_Orig ==
  (custom_status /\ timeout # 0 /\ ~Expired) =>
     (status # "running" /\ workload # "started")

\* C20: once the parent initializes, the pair reaches and keeps the state
\* where the parent is 'running' and the slave is 'waiting'.
C20_Orig ==
  (m_pc = "init") ~> [](m_status = "running" /\ status = "waiting")

====
